---------------------------- MODULE Spec2Model ----------------------------
(***************************************************************************)
(* A model of src/app.py, the Deutsche Bahn performance dashboard.         *)
(*                                                                         *)
(* The script is run top to bottom once per request (a page load or a      *)
(* widget change) of a browser session.  All sessions of the process share *)
(* the objects the caching decorators keep: the DuckDB connection of       *)
(* get_connection (st.cache_resource) and the memoized results of the      *)
(* st.cache_data functions.  The cache key of a st.cache_data function is  *)
(* built from its arguments, leaving out every parameter whose name starts *)
(* with an underscore.                                                     *)
(*                                                                         *)
(* Numbers with decimals are kept as scaled integers: a value rounded to 1 *)
(* decimal is kept times 10, one rounded to 2 decimals times 100.          *)
(***************************************************************************)
EXTENDS Integers, Sequences, FiniteSets, TLC

VARIABLES
    pc,              \* per session: the place of the script run
    period,          \* per session: selected (year, month)
    con,             \* per session: the connection `con` of this run (0: none)
    selected_types,  \* per session: value of the multiselect in this run
    shown,           \* per session: the result tables handed to the display
    error,           \* per session: what st.error / an exception reported
    queried,         \* per session: data paths the run's queries have read
    resource,        \* st.cache_resource of get_connection (0: empty)
    conCreated,      \* number of duckdb.connect() calls of the process
    httpfsSetups,    \* number of INSTALL/LOAD httpfs executions
    view,            \* data path behind data_table on the shared connection
    cache,           \* st.cache_data: memoized results per function
    fnIn,            \* SpecDist, SpecLabels: the input the function is applied to
    fnOut            \* its result

mainVars == <<pc, period, con, selected_types, shown, error, queried,
              resource, conCreated, httpfsSetups, view, cache>>
fnVars == <<fnIn, fnOut>>
vars == <<pc, period, con, selected_types, shown, error, queried,
          resource, conCreated, httpfsSetups, view, cache, fnIn, fnOut>>

---------------------------------------------------------------------------
(* Values *)

\* SQL NULL / Python None, and a present value
Null == <<>>
Some(x) == <<x>>
Val(o) == o[1]

RECURSIVE SumSeq(_)
SumSeq(s) == IF s = <<>> THEN 0 ELSE Head(s) + SumSeq(Tail(s))

RECURSIVE Flatten(_)
Flatten(ss) == IF ss = <<>> THEN <<>> ELSE Head(ss) \o Flatten(Tail(ss))

Range(s) == {s[i] : i \in DOMAIN s}

\* ROUND(num / den, k) on the scaled integers: half away from zero (the
\* quotient is taken exactly, not in binary floating point)
Round(num, den) ==
    IF num >= 0 THEN (2 * num + den) \div (2 * den)
    ELSE -((2 * (-num) + den) \div (2 * den))

---------------------------------------------------------------------------
(* The period selection and the monthly files *)

\* label texts are sequences of characters
ICE == <<"I", "C", "E">>
IC == <<"I", "C">>
RE == <<"R", "E">>
RB == <<"R", "B">>
S == <<"S">>

\* the periods of the two selectboxes taken up here (year, month)
DefaultPeriod == <<2024, 10>>
Periods == {<<2024, 10>>, <<2023, 1>>, <<2022, 1>>}

Digit(d) == <<"0", "1", "2", "3", "4", "5", "6", "7", "8", "9">>[d + 1]

RECURSIVE Decimal(_)
Decimal(n) == IF n < 10 THEN <<Digit(n)>>
              ELSE Decimal(n \div 10) \o <<Digit(n % 10)>>

\* {month_num:02d}
TwoDigits(n) == IF n < 10 THEN <<"0">> \o Decimal(n) ELSE Decimal(n)

\* the part of DATA_PATH that varies: data-{selected_year}-{month_num:02d}
DATA_PATH(p) == <<"d", "a", "t", "a", "-">> \o Decimal(p[1]) \o <<"-">>
                \o TwoDigits(p[2])

\* a trip record; time counts the hours since a Sunday 00:00
Row(t, d, c, tt) ==
    [time |-> t, delay_in_min |-> d, is_canceled |-> c, train_type |-> tt]

\* October 2024: the five default train types, one row without delay
RowsOct ==
    << Row(8, Some(0), FALSE, Some(ICE)),
       Row(41, Some(3), FALSE, Some(IC)),
       Row(60, Some(20), FALSE, Some(RE)),
       Row(80, Null, TRUE, Some(RB)),
       Row(110, Some(7), TRUE, Some(RB)),
       Row(130, Some(61), FALSE, Some(S)) >>

\* January 2023: a file in which no row has a delay
RowsJan ==
    << Row(9, Null, TRUE, Some(ICE)),
       Row(33, Null, TRUE, Some(RE)) >>

\* the files that exist at the remote store; 2022-01 has none
Files ==
    (DATA_PATH(<<2024, 10>>) :> RowsOct) @@ (DATA_PATH(<<2023, 1>>) :> RowsJan)

Available(path) == path \in DOMAIN Files

NoView == <<>>

\* the rows a query on the connection reads through data_table
Table(v) == Files[v]

\* WHERE delay_in_min IS NOT NULL
NonNull(rows) == SelectSeq(rows, LAMBDA r : r.delay_in_min # Null)

HOUR(t) == t % 24
DAYOFWEEK(t) == (t \div 24) % 7

\* SUM(CASE WHEN ... THEN 1 ELSE 0 END) for the rows picked out
Matching(picked) == Len(picked)

\* ROUND(AVG(delay_in_min), 2), times 100; NULL over no rows
AvgDelay(rows) ==
    IF rows = <<>> THEN Null
    ELSE Some(Round(100 * SumSeq([i \in DOMAIN rows |->
                                     Val(rows[i].delay_in_min)]), Len(rows)))

\* ROUND(SUM(CASE WHEN ... THEN 1 ELSE 0 END) * 100.0 / COUNT(*), k), times
\* scale = 10^k, for the rows `picked` out of `rows`; SUM over no rows is
\* NULL and so is the quotient
Pct(picked, rows, scale) ==
    IF rows = <<>> THEN Null
    ELSE Some(Round(Matching(picked) * 100 * scale, Len(rows)))

MinSeq(s) == CHOOSE x \in Range(s) : \A y \in Range(s) : x <= y
MaxSeq(s) == CHOOSE x \in Range(s) : \A y \in Range(s) : x >= y

\* stable order by avg_delay, largest first
RECURSIVE InsertByAvg(_, _)
InsertByAvg(sorted, r) ==
    IF sorted = <<>> THEN <<r>>
    ELSE IF Val(Head(sorted).avg_delay) >= Val(r.avg_delay)
         THEN <<Head(sorted)>> \o InsertByAvg(Tail(sorted), r)
         ELSE <<r>> \o sorted

RECURSIVE OrderByAvgDelayDesc(_)
OrderByAvgDelayDesc(t) ==
    IF t = <<>> THEN <<>>
    ELSE InsertByAvg(OrderByAvgDelayDesc(SubSeq(t, 1, Len(t) - 1)), t[Len(t)])

---------------------------------------------------------------------------
(* The aggregate queries *)

\* the SELECT of get_kpis
KpiQuery(rows) ==
    LET f == NonNull(rows)
        times == [i \in DOMAIN f |-> f[i].time]
    IN  [ total_trips |-> Len(f),
          avg_delay |-> AvgDelay(f),
          punctuality_pct |-> Pct(SelectSeq(f, LAMBDA r : Val(r.delay_in_min) <= 5), f, 10),
          canceled_pct |-> Pct(SelectSeq(f, LAMBDA r : r.is_canceled), f, 100),
          start_date |-> IF f = <<>> THEN Null ELSE Some(MinSeq(times)),
          end_date |-> IF f = <<>> THEN Null ELSE Some(MaxSeq(times)) ]

\* the CASE of get_rush_hour_stats
TimeWindow(t) ==
    IF HOUR(t) >= 7 /\ HOUR(t) <= 9 THEN "Morning Rush (7-9)"
    ELSE IF HOUR(t) >= 16 /\ HOUR(t) <= 19 THEN "Evening Rush (16-19)"
    ELSE "Normal"

TimeWindows == <<"Morning Rush (7-9)", "Evening Rush (16-19)", "Normal">>

\* the SELECT of get_rush_hour_stats: one row per window that has rows
RushHourQuery(rows) ==
    LET f == NonNull(rows)
        Group(w) == SelectSeq(f, LAMBDA r : TimeWindow(r.time) = w)
        present == SelectSeq(TimeWindows, LAMBDA w : Group(w) # <<>>)
    IN  OrderByAvgDelayDesc(
          [k \in DOMAIN present |->
             LET g == Group(present[k])
             IN  [ time_window |-> present[k],
                   total_trips |-> Len(g),
                   avg_delay |-> AvgDelay(g),
                   delayed_pct |->
                       Pct(SelectSeq(g, LAMBDA r : Val(r.delay_in_min) > 15), g, 100),
                   canceled_pct |-> Pct(SelectSeq(g, LAMBDA r : r.is_canceled), g, 100) ]])

\* the CASE DAYOFWEEK(time) of get_weekday_stats
WeekdayName(d) ==
    CASE d = 0 -> "Sunday" [] d = 1 -> "Monday" [] d = 2 -> "Tuesday"
      [] d = 3 -> "Wednesday" [] d = 4 -> "Thursday" [] d = 5 -> "Friday"
      [] d = 6 -> "Saturday" [] OTHER -> "Unknown"

\* the SELECT of get_weekday_stats: one row per day that has rows, by day
WeekdayQuery(rows) ==
    LET f == NonNull(rows)
        Group(d) == SelectSeq(f, LAMBDA r : DAYOFWEEK(r.time) = d)
        present == SelectSeq(<<0, 1, 2, 3, 4, 5, 6>>,
                             LAMBDA d : Group(d) # <<>>)
    IN  [k \in DOMAIN present |->
           LET g == Group(present[k])
           IN  [ weekday |-> WeekdayName(present[k]),
                 day_number |-> present[k],
                 total_trips |-> Len(g),
                 avg_delay |-> AvgDelay(g),
                 canceled_pct |-> Pct(SelectSeq(g, LAMBDA r : r.is_canceled), g, 100) ]]

\* the six labels of get_delay_distribution as the query writes them
Label0 == <<"0", ".", " ", "E", "a", "r", "l", "y", "/", "O", "n", "-", "T", "i", "m", "e">>
Label1 == <<"1", ".", " ", "1", "-", "5", " ", "m", "i", "n">>
Label2 == <<"2", ".", " ", "6", "-", "1", "5", " ", "m", "i", "n">>
Label3 == <<"3", ".", " ", "1", "6", "-", "3", "0", " ", "m", "i", "n">>
Label4 == <<"4", ".", " ", "3", "1", "-", "6", "0", " ", "m", "i", "n">>
Label5 == <<"5", ".", " ", "6", "0", "+", " ", "m", "i", "n">>

\* the CASE with < in place of <=
DelayBucketExclusive(d) ==
    IF d < 0 THEN Label0
    ELSE IF d < 5 THEN Label1
    ELSE IF d < 15 THEN Label2
    ELSE IF d < 30 THEN Label3
    ELSE IF d < 60 THEN Label4
    ELSE Label5

\* CASE WHEN delay_in_min <= 0 ... ELSE '5. 60+ min' END: the first
\* branch whose condition holds
DelayBucket(d) ==
    IF d <= 0 THEN Label0
    ELSE IF d <= 5 THEN Label1
    ELSE IF d <= 15 THEN Label2
    ELSE IF d <= 30 THEN Label3
    ELSE IF d <= 60 THEN Label4
    ELSE Label5

\* the characters of the labels in code order
CodeOrder == <<" ", "'", "+", ",", "-", ".", "/", "0", "1", "2", "3", "4", "5", "6", "7", "8", "9", "A", "B", "C", "E", "I", "M", "O", "R", "S", "T", "a", "b", "c", "d", "e", "i", "m", "n", "r", "t", "y">>

Code(c) == CHOOSE i \in DOMAIN CodeOrder : CodeOrder[i] = c

\* string comparison a < b
RECURSIVE StrLess(_, _)
StrLess(a, b) ==
    IF b = <<>> THEN FALSE
    ELSE IF a = <<>> THEN TRUE
    ELSE IF Head(a) = Head(b) THEN StrLess(Tail(a), Tail(b))
    ELSE Code(Head(a)) < Code(Head(b))

RECURSIVE InsertStr(_, _)
InsertStr(sorted, x) ==
    IF sorted = <<>> THEN <<x>>
    ELSE IF StrLess(x, Head(sorted)) THEN <<x>> \o sorted
    ELSE <<Head(sorted)>> \o InsertStr(Tail(sorted), x)

\* the texts of a set in ascending order (ORDER BY on a text column)
RECURSIVE OrderStrings(_)
OrderStrings(T) ==
    IF T = {} THEN <<>>
    ELSE LET x == CHOOSE y \in T : TRUE
         IN  InsertStr(OrderStrings(T \ {x}), x)

\* the SELECT without its WHERE in the total: the share is taken of all rows
DelayDistributionQueryAllRows(rows) ==
    LET f == NonNull(rows)
        Group(b) == SelectSeq(f, LAMBDA r : DelayBucket(Val(r.delay_in_min)) = b)
        labels == OrderStrings({DelayBucket(Val(f[i].delay_in_min)) :
                                   i \in DOMAIN f})
    IN  [k \in DOMAIN labels |->
           [ delay_bucket |-> labels[k],
             trip_count |-> Len(Group(labels[k])),
             percentage |-> Round(Len(Group(labels[k])) * 1000, Len(rows)) ]]

\* the SELECT of get_delay_distribution: GROUP BY 1 ORDER BY 1 gives one
\* row per label that occurs; the share is taken of all filtered rows
DelayDistributionQuery(rows) ==
    LET f == NonNull(rows)
        Group(b) == SelectSeq(f, LAMBDA r : DelayBucket(Val(r.delay_in_min)) = b)
        labels == OrderStrings({DelayBucket(Val(f[i].delay_in_min)) :
                                   i \in DOMAIN f})
    IN  [k \in DOMAIN labels |->
           [ delay_bucket |-> labels[k],
             trip_count |-> Len(Group(labels[k])),
             percentage |-> Round(Len(Group(labels[k])) * 1000, Len(f)) ]]

IsDigit(c) == c \in {"0", "1", "2", "3", "4", "5", "6", "7", "8", "9"}

\* \d+ at the start of a text: what is left after the digits
RECURSIVE DropDigits(_)
DropDigits(s) ==
    IF s # <<>> /\ IsDigit(Head(s)) THEN DropDigits(Tail(s)) ELSE s

\* \s* at the start of a text: what is left after the blanks
RECURSIVE DropBlanks(_)
DropBlanks(s) ==
    IF s # <<>> /\ Head(s) = " " THEN DropBlanks(Tail(s)) ELSE s

\* str.replace(r'^\d+\.\s*', '', regex=True) on one label
StripOrderingPrefix(s) ==
    LET afterDigits == DropDigits(s)
    IN  IF Len(afterDigits) < Len(s) /\ afterDigits # <<>>
           /\ Head(afterDigits) = "."
        THEN DropBlanks(Tail(afterDigits))
        ELSE s

\* get_delay_distribution: the query, then the clean-up of the labels
DelayDistribution(rows) ==
    LET t == DelayDistributionQuery(rows)
    IN  [k \in DOMAIN t |->
           [t[k] EXCEPT !.delay_bucket = StripOrderingPrefix(@)]]

---------------------------------------------------------------------------
(* The train-type queries *)

\* the SELECT DISTINCT of get_train_types, as a list
TrainTypesQuery(rows) ==
    OrderStrings({Val(rows[i].train_type) :
                     i \in {j \in DOMAIN rows : rows[j].train_type # Null}})

\* f"'{t}'"
Quoted(t) == <<"'">> \o t \o <<"'">>

\* ", ".join(parts)
RECURSIVE Join(_)
Join(parts) ==
    IF parts = <<>> THEN <<>>
    ELSE IF Len(parts) = 1 THEN Head(parts)
    ELSE Head(parts) \o <<",", " ">> \o Join(Tail(parts))

\* types_str of get_train_type_stats
TypesStr(selected) == Join([i \in DOMAIN selected |-> Quoted(selected[i])])

SyntaxError == [ok |-> FALSE, items |-> <<>>]

\* How the engine reads the text placed between "IN (" and ")": a list of
\* string constants separated by commas.  Inside a constant two quotes
\* stand for one quote and a single quote ends it.  A constant still open
\* at the end of the text runs on into the rest of the statement, and a
\* letter outside a constant names a column the table does not have: the
\* statement is rejected in both cases.
RECURSIVE ReadInList(_, _, _, _, _)
ReadInList(s, i, mode, cur, items) ==
    IF i > Len(s)
    THEN IF mode = "after" THEN [ok |-> TRUE, items |-> items]
         ELSE SyntaxError
    ELSE CASE mode = "expect" ->
                IF s[i] = " " THEN ReadInList(s, i + 1, "expect", cur, items)
                ELSE IF s[i] = "'"
                     THEN ReadInList(s, i + 1, "in", <<>>, items)
                     ELSE SyntaxError
           [] mode = "in" ->
                IF s[i] = "'"
                THEN IF i + 1 <= Len(s) /\ s[i + 1] = "'"
                     THEN ReadInList(s, i + 2, "in", Append(cur, "'"), items)
                     ELSE ReadInList(s, i + 1, "after", <<>>,
                                     Append(items, cur))
                ELSE ReadInList(s, i + 1, "in", Append(cur, s[i]), items)
           [] OTHER ->
                IF s[i] = " " THEN ReadInList(s, i + 1, "after", cur, items)
                ELSE IF s[i] = ","
                     THEN ReadInList(s, i + 1, "expect", cur, items)
                     ELSE SyntaxError

\* the values the executed statement compares train_type with
InList(selected) == ReadInList(TypesStr(selected), 1, "expect", <<>>, <<>>)

\* the train types of a list of rows in the order of first occurrence
RECURSIVE DistinctTypes(_)
DistinctTypes(rows) ==
    IF rows = <<>> THEN <<>>
    ELSE LET rest == DistinctTypes(SubSeq(rows, 1, Len(rows) - 1))
             tt == rows[Len(rows)].train_type
         IN  IF tt \in Range(rest) THEN rest ELSE Append(rest, tt)

\* the SELECT of get_train_type_stats; error: the statement raised
TrainTypeStatsQuery(selected, rows) ==
    LET in == InList(selected)
        f == SelectSeq(NonNull(rows),
                       LAMBDA r : r.train_type # Null
                                  /\ Val(r.train_type) \in Range(in.items))
        types == DistinctTypes(f)
        Group(tt) == SelectSeq(f, LAMBDA r : r.train_type = tt)
    IN  IF ~in.ok THEN [error |-> TRUE, table |-> <<>>]
        ELSE [ error |-> FALSE,
               table |-> OrderByAvgDelayDesc(
                 [k \in DOMAIN types |->
                    LET g == Group(types[k])
                    IN  [ train_type |-> Val(types[k]),
                          total_trips |-> Len(g),
                          avg_delay |-> AvgDelay(g),
                          punctuality_pct |->
                              Pct(SelectSeq(g, LAMBDA r : Val(r.delay_in_min) <= 5), g, 10),
                          canceled_pct |->
                              Pct(SelectSeq(g, LAMBDA r : r.is_canceled), g, 100) ]]) ]

---------------------------------------------------------------------------
(* The display code between the queries *)

\* rush_hour_df.iloc[0] raises IndexError on a table without rows
IlocFirstRaises(df) == df = <<>>

\* weekday_df['avg_delay'].idxmin() raises ValueError on a table without rows
IdxRaises(df) == df = <<>>

\* default of the multiselect
DefaultTypes == <<ICE, IC, RE, RB, S>>

\* st.multiselect raises when a default value is not among the options
MultiselectRaises(options) == ~(Range(DefaultTypes) \subseteq Range(options))

\* the selections of the multiselect taken up here
TypeChoices == {DefaultTypes, <<ICE>>, <<>>}

---------------------------------------------------------------------------
(* Caching *)

CachedFns == {"get_kpis", "get_rush_hour_stats", "get_weekday_stats",
              "get_delay_distribution", "get_train_types",
              "get_train_type_stats"}

\* the parameter names in the def lines
Params ==
    [ get_kpis |-> <<<<"_", "y", "e", "a", "r">>, <<"_", "m", "o", "n", "t", "h">>>>,
      get_rush_hour_stats |-> <<<<"_", "y", "e", "a", "r">>, <<"_", "m", "o", "n", "t", "h">>>>,
      get_weekday_stats |-> <<<<"_", "y", "e", "a", "r">>, <<"_", "m", "o", "n", "t", "h">>>>,
      get_delay_distribution |-> <<>>,
      get_train_types |-> <<<<"_", "y", "e", "a", "r">>, <<"_", "m", "o", "n", "t", "h">>>>,
      get_train_type_stats |->
          <<<<"s", "e", "l", "e", "c", "t", "e", "d", "_", "t", "y", "p", "e", "s">>, <<"_", "y", "e", "a", "r">>, <<"_", "m", "o", "n", "t", "h">>>> ]

\* st.cache_data hashes an argument unless its parameter name starts with
\* an underscore
Hashed(name) == Head(name) # "_"

\* the cache key of a call: the hashed arguments
CacheKey(fn, args) ==
    LET idx == SelectSeq([i \in DOMAIN args |-> i],
                         LAMBDA i : Hashed(Params[fn][i]))
    IN  [k \in DOMAIN idx |-> args[idx[k]]]

\* st.cache_data: a memoized result, if there is one
Hit(fn, args) == CacheKey(fn, args) \in DOMAIN cache[fn]
Cached(fn, args) == cache[fn][CacheKey(fn, args)]

\* the result is stored under the key of the call
Store(fn, args, entry) ==
    cache' = [cache EXCEPT ![fn] = @ @@ (CacheKey(fn, args) :> entry)]

\* get_connection without its decorator: every run connects anew
ResourceNeverHit == FALSE

\* st.cache_resource: get_connection has been run before
ResourceHit == resource # 0

---------------------------------------------------------------------------
(* The script run of a session *)

\* two browser sessions of one server process
Sessions == {"s1", "s2"}

\* cap on the connections the process creates
MaxConnections == 3

NoTables == [kpis |-> Null, rush |-> Null, weekday |-> Null, dist |-> Null,
             types |-> Null, tts |-> Null]

\* every session is about to run the script for the first time, with the
\* defaults of the selectboxes; nothing is cached yet
Idle ==
    /\ pc = [s \in Sessions |-> "connect"]
    /\ period = [s \in Sessions |-> DefaultPeriod]
    /\ con = [s \in Sessions |-> 0]
    /\ selected_types = [s \in Sessions |-> <<>>]
    /\ shown = [s \in Sessions |-> NoTables]
    /\ error = [s \in Sessions |-> "none"]
    /\ queried = [s \in Sessions |-> {}]
    /\ resource = 0
    /\ conCreated = 0
    /\ httpfsSetups = 0
    /\ view = NoView
    /\ cache = [fn \in CachedFns |-> <<>>]

Init ==
    /\ Idle
    /\ fnIn = <<>>
    /\ fnOut = <<>>

\* A widget change or a reload starts the script again with a selection.
\* It may arrive while the script is running: the run is then given up at
\* its next call into the display and the new run starts from the top.
NewRequest(s, p) ==
    /\ pc' = [pc EXCEPT ![s] = "connect"]
    /\ period' = [period EXCEPT ![s] = p]
    /\ con' = [con EXCEPT ![s] = 0]
    /\ selected_types' = [selected_types EXCEPT ![s] = <<>>]
    /\ shown' = [shown EXCEPT ![s] = NoTables]
    /\ error' = [error EXCEPT ![s] = "none"]
    /\ queried' = [queried EXCEPT ![s] = {}]
    /\ UNCHANGED <<resource, conCreated, httpfsSetups, view, cache, fnVars>>

\* con = get_connection()
GetConnection(s) ==
    /\ pc[s] = "connect"
    /\ IF ResourceHit
       THEN /\ con' = [con EXCEPT ![s] = resource]
            /\ UNCHANGED <<resource, conCreated, httpfsSetups>>
       ELSE /\ conCreated < MaxConnections
            /\ conCreated' = conCreated + 1
            /\ httpfsSetups' = httpfsSetups + 1
            /\ resource' = conCreated + 1
            /\ con' = [con EXCEPT ![s] = conCreated + 1]
    /\ pc' = [pc EXCEPT ![s] = "view"]
    /\ UNCHANGED <<period, selected_types, shown, error, queried, view,
                   cache, fnVars>>

\* the engine reads the file's schema when it creates the view, so a file
\* that cannot be opened makes CREATE OR REPLACE VIEW raise
ViewCreationRaises(path) == ~Available(path)

\* the except branch without its st.stop(): the run goes on
CreateViewNoStop(s) ==
    /\ pc[s] = "view"
    /\ IF ViewCreationRaises(DATA_PATH(period[s]))
       THEN /\ error' = [error EXCEPT ![s] = "could_not_load"]
            /\ view' = view
       ELSE /\ view' = DATA_PATH(period[s])
            /\ error' = error
    /\ pc' = [pc EXCEPT ![s] = "test"]
    /\ UNCHANGED <<period, con, selected_types, shown, queried, resource,
                   conCreated, httpfsSetups, cache, fnVars>>

\* CREATE OR REPLACE VIEW data_table, or st.error and st.stop()
CreateView(s) ==
    /\ pc[s] = "view"
    /\ IF ViewCreationRaises(DATA_PATH(period[s]))
       THEN /\ error' = [error EXCEPT ![s] = "could_not_load"]
            /\ pc' = [pc EXCEPT ![s] = "stopped"]
            /\ view' = view
       ELSE /\ view' = DATA_PATH(period[s])
            /\ pc' = [pc EXCEPT ![s] = "test"]
            /\ error' = error
    /\ UNCHANGED <<period, con, selected_types, shown, queried, resource,
                   conCreated, httpfsSetups, cache, fnVars>>

\* SELECT COUNT(*) FROM data_table, or st.error and st.stop()
LoadTest(s) ==
    /\ pc[s] = "test"
    /\ queried' = [queried EXCEPT ![s] = @ \cup {view}]
    /\ IF Available(view)
       THEN /\ pc' = [pc EXCEPT ![s] = "kpis"]
            /\ error' = error
       ELSE /\ pc' = [pc EXCEPT ![s] = "stopped"]
            /\ error' = [error EXCEPT ![s] = "error_while_loading"]
    /\ UNCHANGED <<period, con, selected_types, shown, resource, conCreated,
                   httpfsSetups, view, cache, fnVars>>

\* A call of a cached function in the run of s.  The memoized entry is
\* returned if there is one; else the function body runs its query on the
\* shared connection, against the view as it is now, and the result is
\* stored.  An entry keeps the data path it was computed from.
Call(s, fn, args, result, slot) ==
    LET entry == IF Hit(fn, args) THEN Cached(fn, args)
                 ELSE [src |-> view, val |-> result]
    IN  /\ IF Hit(fn, args)
           THEN UNCHANGED <<cache, queried>>
           ELSE /\ Store(fn, args, entry)
                /\ queried' = [queried EXCEPT ![s] = @ \cup {view}]
        /\ shown' = [shown EXCEPT ![s][slot] = Some(entry)]

\* the table a call leaves in the slot of the display
Returned(s, slot) == Val(shown'[s][slot]).val

\* kpis = get_kpis(selected_year, month_num) and the four metric cards
Kpis(s) ==
    /\ pc[s] = "kpis"
    /\ Call(s, "get_kpis", <<period[s][1], period[s][2]>>,
            KpiQuery(Table(view)), "kpis")
    /\ pc' = [pc EXCEPT ![s] = "rush"]
    /\ UNCHANGED <<period, con, selected_types, error, resource, conCreated,
                   httpfsSetups, view, fnVars>>

\* rush_hour_df = get_rush_hour_stats(...), chart, table and insight box
RushHour(s) ==
    /\ pc[s] = "rush"
    /\ Call(s, "get_rush_hour_stats", <<period[s][1], period[s][2]>>,
            RushHourQuery(Table(view)), "rush")
    /\ IF IlocFirstRaises(Returned(s, "rush"))
       THEN /\ pc' = [pc EXCEPT ![s] = "fault"]
            /\ error' = [error EXCEPT ![s] = "IndexError"]
       ELSE /\ pc' = [pc EXCEPT ![s] = "weekday"]
            /\ error' = error
    /\ UNCHANGED <<period, con, selected_types, resource, conCreated,
                   httpfsSetups, view, fnVars>>

\* weekday_df = get_weekday_stats(...), charts, best and worst day
Weekday(s) ==
    /\ pc[s] = "weekday"
    /\ Call(s, "get_weekday_stats", <<period[s][1], period[s][2]>>,
            WeekdayQuery(Table(view)), "weekday")
    /\ IF IdxRaises(Returned(s, "weekday"))
       THEN /\ pc' = [pc EXCEPT ![s] = "fault"]
            /\ error' = [error EXCEPT ![s] = "ValueError"]
       ELSE /\ pc' = [pc EXCEPT ![s] = "dist"]
            /\ error' = error
    /\ UNCHANGED <<period, con, selected_types, resource, conCreated,
                   httpfsSetups, view, fnVars>>

\* delay_dist_df = get_delay_distribution(), chart, table and insights
DelayDist(s) ==
    /\ pc[s] = "dist"
    /\ Call(s, "get_delay_distribution", <<>>,
            DelayDistribution(Table(view)), "dist")
    /\ pc' = [pc EXCEPT ![s] = "types"]
    /\ UNCHANGED <<period, con, selected_types, error, resource, conCreated,
                   httpfsSetups, view, fnVars>>

\* all_train_types = get_train_types(...) and the multiselect; without a
\* selection the warning is shown in place of the comparison
TrainTypes(s) ==
    /\ pc[s] = "types"
    /\ Call(s, "get_train_types", <<period[s][1], period[s][2]>>,
            TrainTypesQuery(Table(view)), "types")
    /\ IF MultiselectRaises(Returned(s, "types"))
       THEN /\ pc' = [pc EXCEPT ![s] = "fault"]
            /\ error' = [error EXCEPT ![s] = "StreamlitAPIException"]
            /\ selected_types' = selected_types
       ELSE /\ \E sel \in TypeChoices :
                 /\ Range(sel) \subseteq Range(Returned(s, "types"))
                 /\ selected_types' = [selected_types EXCEPT ![s] = sel]
                 /\ pc' = [pc EXCEPT ![s] =
                              IF sel # <<>> THEN "tts" ELSE "raw"]
            /\ error' = error
    /\ UNCHANGED <<period, con, resource, conCreated, httpfsSetups, view,
                   fnVars>>

\* train_type_df = get_train_type_stats(selected_types, ...), charts and
\* table; a statement the engine rejects raises out of the function and
\* nothing is stored
TrainTypeStats(s) ==
    LET args == <<selected_types[s], period[s][1], period[s][2]>>
        q == TrainTypeStatsQuery(selected_types[s], Table(view))
    IN  /\ pc[s] = "tts"
        /\ IF ~Hit("get_train_type_stats", args) /\ q.error
           THEN /\ pc' = [pc EXCEPT ![s] = "fault"]
                /\ error' = [error EXCEPT ![s] = "ParserException"]
                /\ UNCHANGED <<shown, cache, queried>>
           ELSE /\ Call(s, "get_train_type_stats", args, q.table, "tts")
                /\ pc' = [pc EXCEPT ![s] = "raw"]
                /\ error' = error
        /\ UNCHANGED <<period, con, selected_types, resource, conCreated,
                       httpfsSetups, view, fnVars>>

\* the expander: SELECT * FROM data_table LIMIT 100
RawData(s) ==
    /\ pc[s] = "raw"
    /\ queried' = [queried EXCEPT ![s] = @ \cup {view}]
    /\ pc' = [pc EXCEPT ![s] = "done"]
    /\ UNCHANGED <<period, con, selected_types, shown, error, resource,
                   conCreated, httpfsSetups, view, cache, fnVars>>

Next ==
    \E s \in Sessions :
       \/ \E p \in Periods : NewRequest(s, p)
       \/ GetConnection(s)
       \/ CreateView(s)
       \/ LoadTest(s)
       \/ Kpis(s)
       \/ RushHour(s)
       \/ Weekday(s)
       \/ DelayDist(s)
       \/ TrainTypes(s)
       \/ TrainTypeStats(s)
       \/ RawData(s)

Spec == Init /\ [][Next]_vars

---------------------------------------------------------------------------
(* get_delay_distribution as a function of the data *)

\* delays on both sides of every bucket boundary
DelayValues == <<-1, 0, 1, 5, 6, 15, 16, 30, 31, 60, 61>>

\* one delay of each bucket
BucketDelays == <<0, 5, 15, 30, 60, 61>>

\* largest number of further rows with one and the same delay
MaxExtra == 10

RECURSIVE Repeat(_, _)
Repeat(x, n) == IF n = 0 THEN <<>> ELSE <<x>> \o Repeat(x, n - 1)

\* A file for get_delay_distribution: one row for each delay of `delays`,
\* `nulls` rows without delay, and `extra` further rows with delay `heavy`.
DistRows(in) ==
    LET once == SelectSeq(DelayValues, LAMBDA d : d \in in.delays)
        ds == once \o Repeat(in.heavy, in.extra)
    IN  [i \in DOMAIN ds |-> Row(i, Some(ds[i]), FALSE, Some(ICE))]
        \o Repeat(Row(0, Null, TRUE, Some(ICE)), in.nulls)

DistInputs ==
    [delays : SUBSET Range(DelayValues), nulls : 0..1, heavy : {0},
     extra : {0}]
    \cup [delays : SUBSET Range(BucketDelays), nulls : {0},
          heavy : Range(BucketDelays), extra : 1..MaxExtra]

DistInit ==
    /\ Idle
    /\ fnIn \in DistInputs
    /\ fnOut = <<>>

\* delay_dist_df = get_delay_distribution() on the file fnIn
ApplyDelayDistribution ==
    /\ fnOut = <<>>
    /\ fnOut' = Some(DelayDistribution(DistRows(fnIn)))
    /\ UNCHANGED <<mainVars, fnIn>>

DistNext == ApplyDelayDistribution

SpecDist == DistInit /\ [][DistNext]_vars

---------------------------------------------------------------------------
(* get_train_type_stats as a function of the selected labels *)

\* characters of a label: a letter, the quote and the comma
LabelChars == {"a", "'", ","}

\* longest label and largest selection
MaxLabelLen == 3
MaxSelected == 2

Labels == UNION {[1..k -> LabelChars] : k \in 0..MaxLabelLen}

\* a file with two rows for every label, one of them without delay
LabelRows ==
    LET ls == OrderStrings(Labels)
    IN  Flatten([i \in DOMAIN ls |->
                   << Row(i, Some(i), FALSE, Some(ls[i])),
                      Row(i, Null, TRUE, Some(ls[i])) >>])

LabelInit ==
    /\ Idle
    /\ fnIn \in UNION {[1..k -> Labels] : k \in 1..MaxSelected}
    /\ fnOut = <<>>

\* train_type_df = get_train_type_stats(selected_types, ...) with the
\* selection fnIn on the file LabelRows
ApplyTrainTypeStats ==
    /\ fnOut = <<>>
    /\ fnOut' = Some(TrainTypeStatsQuery(fnIn, LabelRows))
    /\ UNCHANGED <<mainVars, fnIn>>

LabelNext == ApplyTrainTypeStats

SpecLabels == LabelInit /\ [][LabelNext]_vars

---------------------------------------------------------------------------
(* Properties *)

OwnPath(s) == DATA_PATH(period[s])

TableSlots == {"kpis", "rush", "weekday", "dist", "tts"}

TripCounts(t) == SumSeq([k \in DOMAIN t |-> t[k].trip_count])

Shares(t) == SumSeq([k \in DOMAIN t |-> t[k].percentage])

Abs(x) == IF x < 0 THEN -x ELSE x

\* the cached function a run calls next, and the arguments of the call
NextCall(s) ==
    CASE pc[s] = "kpis" -> <<"get_kpis", <<period[s][1], period[s][2]>>>>
      [] pc[s] = "rush" ->
            <<"get_rush_hour_stats", <<period[s][1], period[s][2]>>>>
      [] pc[s] = "weekday" ->
            <<"get_weekday_stats", <<period[s][1], period[s][2]>>>>
      [] pc[s] = "dist" -> <<"get_delay_distribution", <<>>>>
      [] pc[s] = "tts" ->
            <<"get_train_type_stats",
              <<selected_types[s], period[s][1], period[s][2]>>>>

\* C1: a table the memo returns to a request was computed from the file of
\* the period selected in that request.
C1_MemoKeyedOnPeriod ==
    \A s \in Sessions :
       (pc[s] \in {"kpis", "rush", "weekday", "dist", "tts"}
        /\ Hit(NextCall(s)[1], NextCall(s)[2]))
          => Cached(NextCall(s)[1], NextCall(s)[2]).src = OwnPath(s)

\* C2: whatever the interleaving of two sessions, every query of a run
\* reads the file of the period selected in that run (the view behind the
\* shared connection is not changed under it).
C2_QueriesReadOwnPeriod ==
    \A s \in Sessions : queried[s] \subseteq {OwnPath(s)}

\* C3: a request for a period whose file has no row with a delay ends
\* without an uncaught exception.
C3_NoFaultWithoutDelays ==
    \A s \in Sessions :
       (Available(OwnPath(s)) /\ NonNull(Table(OwnPath(s))) = <<>>)
          => pc[s] # "fault"

\* C4: a request for a period whose file cannot be opened reports that the
\* data could not be loaded and stops at the view: it runs no query, calls
\* no aggregator and shows no table, fresh or memoized.
C4_UnavailableHalts ==
    \A s \in Sessions :
       ~Available(OwnPath(s)) =>
          /\ pc[s] \in {"connect", "view", "stopped"}
          /\ shown[s] = NoTables
          /\ queried[s] = {}
          /\ error[s] = IF pc[s] = "stopped" THEN "could_not_load" ELSE "none"

\* a request for the missing file has stopped while results of an earlier
\* period are in the memo
C4_Witness ==
    \E s \in Sessions :
       /\ ~Available(OwnPath(s))
       /\ pc[s] = "stopped"
       /\ error[s] = "could_not_load"
       /\ cache["get_kpis"] # <<>>
       /\ cache["get_delay_distribution"] # <<>>

\* C9: in every request the total of get_kpis is the sum of the trip counts
\* of the rows of get_delay_distribution.
C9_KpiTotalIsBucketSum ==
    \A s \in Sessions :
       (shown[s].kpis # Null /\ shown[s].dist # Null)
          => Val(shown[s].kpis).val.total_trips
                = TripCounts(Val(shown[s].dist).val)

\* C10: the process connects and sets up httpfs at most once, and every run
\* of every session works on that one connection.
C10_OneConnection ==
    /\ conCreated <= 1
    /\ httpfsSetups <= 1
    /\ \A s \in Sessions :
          /\ con[s] \in {0, resource}
          /\ pc[s] # "connect" => con[s] = 1

\* two sessions with different periods hold the connection, one of them in
\* the middle of its queries and the other at the end of a run
C10_Witness ==
    \E s, t \in Sessions :
       /\ s # t
       /\ period[s] # period[t]
       /\ pc[s] = "done" /\ pc[t] = "dist"
       /\ con[s] = 1 /\ con[t] = 1
       /\ conCreated = 1 /\ httpfsSetups = 1

\* the six bucket names in their fixed order
BucketNames ==
    << <<"E", "a", "r", "l", "y", "/", "O", "n", "-", "T", "i", "m", "e">>,
       <<"1", "-", "5", " ", "m", "i", "n">>,
       <<"6", "-", "1", "5", " ", "m", "i", "n">>,
       <<"1", "6", "-", "3", "0", " ", "m", "i", "n">>,
       <<"3", "1", "-", "6", "0", " ", "m", "i", "n">>,
       <<"6", "0", "+", " ", "m", "i", "n">> >>

\* the range of delays of the k-th bucket, upper end included
InBucket(k, d) ==
    CASE k = 1 -> d <= 0
      [] k = 2 -> 0 < d /\ d <= 5
      [] k = 3 -> 5 < d /\ d <= 15
      [] k = 4 -> 15 < d /\ d <= 30
      [] k = 5 -> 30 < d /\ d <= 60
      [] k = 6 -> d > 60

\* C5: for every non-empty selection of labels the statement runs and the
\* table has one row for each selected label that has rows with a delay,
\* with the number of those rows: the labels are compared as data.
C5_LabelsAreData ==
    fnOut # <<>> =>
       LET r == Val(fnOut)
           f == NonNull(LabelRows)
           N(l) == Cardinality({i \in DOMAIN f : f[i].train_type = Some(l)})
       IN  /\ ~r.error
           /\ {<<r.table[k].train_type, r.table[k].total_trips>> :
                  k \in DOMAIN r.table}
              = {<<l, N(l)>> : l \in {x \in Range(fnIn) : N(x) > 0}}

\* C6: for every file the table of get_delay_distribution has the six
\* bucket names, without prefix, in their fixed order.
C6_SixBucketsInOrder ==
    fnOut # <<>> =>
       LET t == Val(fnOut)
       IN  [k \in DOMAIN t |-> t[k].delay_bucket] = BucketNames

\* C7: every row with a delay is counted in the one bucket whose range,
\* upper end included, holds its delay: the table has a row for a bucket
\* exactly if the file has delays in its range, and its trip count is their
\* number.
C7_UpperInclusiveBuckets ==
    fnOut # <<>> =>
       LET t == Val(fnOut)
           f == NonNull(DistRows(fnIn))
           N(k) == Cardinality({i \in DOMAIN f :
                                   InBucket(k, Val(f[i].delay_in_min))})
           At(k) == {j \in DOMAIN t : t[j].delay_bucket = BucketNames[k]}
       IN  /\ \A k \in DOMAIN BucketNames :
                 IF N(k) = 0 THEN At(k) = {}
                 ELSE /\ Cardinality(At(k)) = 1
                      /\ \A j \in At(k) : t[j].trip_count = N(k)
           /\ TripCounts(t) = Len(f)

\* the file holds the delays 0, 5, 15, 60 and 61 and the table is there
C7_Witness ==
    /\ fnOut # <<>>
    /\ {0, 5, 15, 60, 61} \subseteq fnIn.delays
    /\ Len(Val(fnOut)) = 5

\* C8: for a file with at least one delay the shares of the table add up to
\* 100.0 within 0.2.
C8_SharesWithinTwoTenths ==
    (fnOut # <<>> /\ NonNull(DistRows(fnIn)) # <<>>)
       => Abs(Shares(Val(fnOut)) - 1000) <= 2

\* C8 as amended: for a file with at least one delay the shares of the table
\* add up to 100.0 within 0.3.
C8_SharesWithinThreeTenths ==
    (fnOut # <<>> /\ NonNull(DistRows(fnIn)) # <<>>)
       => Abs(Shares(Val(fnOut)) - 1000) <= 3

\* six buckets whose shares all end in 5 hundredths: the sum is 100.3
C8_Witness ==
    /\ fnOut # <<>>
    /\ Len(Val(fnOut)) = 6
    /\ Shares(Val(fnOut)) = 1003

=============================================================================
